---- MODULE Spec2Model ----
(***************************************************************************)
(* A model of package jsonfiledb (crawshaw/jsonfile): one Go value of type *)
(* DB held in memory and persisted to a JSON file by New, Load, Read and   *)
(* Write.  The file system (the target path and the temporary files next   *)
(* to it), the heap (DB instances and the backing arrays of slices), the   *)
(* RWMutex of each JSONFileDB and the position of every call are state.    *)
(***************************************************************************)
EXTENDS Integers, Sequences, FiniteSets, TLC

\* ------------------------------------------------------------------ bounds
\* Integers stored in a document range over 0..MaxVal.
MaxVal == 1
\* Slices handed to a mutator by the caller hold at most MaxLen elements.
MaxLen == 2
\* What one behaviour may spend: one unit for each New or Write call begun,
\* for each I/O failure of the operating system (other than those a read-only
\* directory or a directory at p.path causes) and for each crash.
Budget == 2

\* ------------------------------------------------------------ JSON documents
\* A document is a sequence of tokens; " " is insignificant white space and
\* "x" is a byte that belongs to no JSON text ("not json").
Ints == 0..MaxVal

\* The type parameter DB: struct{ Val int }, struct{ Vals []int },
\* map[string]int, struct{ V error } (a non-empty interface field) and int.
Kinds == {"Val", "Vals", "Map", "Iface", "Int"}

\* The integers a document can come to hold: a counter grows by one per Write.
Nums == 0..(MaxVal + Budget)
Dig(n) == ToString(n)
IsDig(t) == \E n \in Nums : ToString(n) = t
Num(t) == CHOOSE n \in Nums : ToString(n) = t

\* The empty map and the map {"a": n}.
EmptyMap == [k \in {} |-> 0]
MapOf(n) == [k \in {"a"} |-> n]

\* new(DB): the zero value of DB, as the tree json.Marshal walks.
Zero(kind) ==
    CASE kind = "Val"   -> [Val |-> 0]
      [] kind = "Vals"  -> [isNil |-> TRUE, elems |-> <<>>]
      [] kind = "Map"   -> [isNil |-> TRUE, m |-> EmptyMap]
      [] kind = "Iface" -> [V |-> "nil"]
      [] kind = "Int"   -> [Int |-> 0]

\* The elements of a JSON array body: e1 , e2 , ... (tokens between [ and ]).
ElemsOk(inner) ==
    \/ Len(inner) = 0
    \/ /\ Len(inner) % 2 = 1
       /\ \A i \in 1..Len(inner) :
             IF i % 2 = 1 THEN IsDig(inner[i]) ELSE inner[i] = ","
Elems(inner) == [i \in 1..((Len(inner) + 1) \div 2) |-> Num(inner[2 * i - 1])]

RECURSIVE Join(_)
Join(elems) ==
    IF Len(elems) = 0 THEN <<>>
    ELSE IF Len(elems) = 1 THEN <<Dig(elems[1])>>
    ELSE <<Dig(elems[1]), ",">> \o Join(Tail(elems))

\* Whether json.Marshal(db) returns a nil error: an error value whose
\* MarshalJSON method fails makes it fail.
MarshalOk(kind, v) == ~(kind = "Iface" /\ v.V = "badMarshaler")

\* json.Marshal(db): the bytes of a value.
Marshal(kind, v) ==
    CASE kind = "Val"   -> <<"{", "Val", ":", Dig(v.Val), "}">>
      [] kind = "Vals"  -> IF v.isNil
                           THEN <<"{", "Vals", ":", "null", "}">>
                           ELSE <<"{", "Vals", ":", "[">> \o Join(v.elems) \o <<"]", "}">>
      [] kind = "Map"   -> IF v.isNil THEN <<"null">>
                           ELSE IF DOMAIN v.m = {} THEN <<"{", "}">>
                           ELSE <<"{", "a", ":", Dig(v.m["a"]), "}">>
      [] kind = "Iface" -> IF v.V = "nil"
                           THEN <<"{", "V", ":", "null", "}">>
                           ELSE <<"{", "V", ":", "{", "}", "}">>
      [] kind = "Int"   -> <<Dig(v.Int)>>

Strip(b) == SelectSeq(b, LAMBDA t : t # " ")

\* json.Unmarshal(b, new(DB)): [ok |-> whether it returned nil, v |-> *db after it].
UnmarshalStripped(kind, s) ==
    LET z == Zero(kind)
        bad == [ok |-> FALSE, v |-> z]
        good(v) == [ok |-> TRUE, v |-> v]
    IN  IF kind = "Int"
        THEN IF s = <<"null">> THEN good(z)
             ELSE IF Len(s) = 1 /\ IsDig(s[1]) THEN good([Int |-> Num(s[1])])
             ELSE bad
        ELSE IF s = <<"null">> \/ s = <<"{", "}">>
        THEN IF kind = "Map" /\ s = <<"{", "}">>
             THEN good([isNil |-> FALSE, m |-> EmptyMap])
             ELSE good(z)
        ELSE IF Len(s) < 5 \/ s[1] # "{" \/ s[3] # ":" \/ s[Len(s)] # "}"
        THEN bad
        ELSE CASE kind = "Val" ->
                    IF Len(s) = 5 /\ s[2] = "Val" /\ IsDig(s[4])
                    THEN good([Val |-> Num(s[4])]) ELSE bad
               [] kind = "Vals" ->
                    IF s[2] # "Vals" THEN bad
                    ELSE IF Len(s) = 5 /\ s[4] = "null" THEN good(z)
                    ELSE IF /\ Len(s) >= 6 /\ s[4] = "[" /\ s[Len(s) - 1] = "]"
                            /\ ElemsOk(SubSeq(s, 5, Len(s) - 2))
                    THEN good([isNil |-> FALSE,
                               elems |-> Elems(SubSeq(s, 5, Len(s) - 2))])
                    ELSE bad
               [] kind = "Map" ->
                    IF Len(s) = 5 /\ s[2] = "a" /\ IsDig(s[4])
                    THEN good([isNil |-> FALSE, m |-> MapOf(Num(s[4]))]) ELSE bad
               [] kind = "Iface" ->
                    \* a nil error cannot receive a JSON object
                    IF Len(s) = 5 /\ s[2] = "V" /\ s[4] = "null"
                    THEN good(z) ELSE bad
Unmarshal(kind, b) == UnmarshalStripped(kind, Strip(b))


\* ------------------------------------------------------------------- state
VARIABLES
    DB,       \* the type parameter of JSONFileDB[DB]
    file,     \* what is at p.path: [k |-> "absent" | "dir" | "file", b |-> its bytes]
    temps,    \* the temp files of filepath.Dir(p.path): name -> bytes
    dirw,     \* whether the directory of p.path is writable
    heap,     \* the reachable DB instances: *DB -> value
    arrs,     \* the reachable backing arrays of slices: array -> elements (0 is nil)
    store,    \* the JSONFileDB values: [st, by, data, db]
    mu,       \* p.mu of each JSONFileDB
    call,     \* the call each goroutine is in, and its local variables
    last,     \* per JSONFileDB, the last New or Write that returned
    handed,   \* the *DB the latest mutator was called with; its caller may hold it
    owned,    \* the array the caller of Write built last (someVals)
    spent     \* calls begun, I/O failures and crashes so far

vars == <<DB, file, temps, dirw, heap, arrs, store, mu, call, last,
          handed, owned, spent>>

Stores == {1, 2}
Procs == DOMAIN call

NoErr == <<>>
Absent == [k |-> "absent", b |-> <<>>]
Dir == [k |-> "dir", b |-> <<>>]
Regular(b) == [k |-> "file", b |-> b]
NoTemps == [n \in {} |-> <<>>]
NoHeap == [n \in {} |-> 0]

\* -------------------------------------------------------------------- heap
\* The value a *DB points to, as the tree reflect.DeepEqual and json.Marshal see.
DeepIn(kind, v, A) ==
    IF kind = "Vals"
    THEN [isNil |-> v.Vals = 0, elems |-> IF v.Vals = 0 THEN <<>> ELSE A[v.Vals]]
    ELSE v
Deep(ptr) == DeepIn(DB, heap[ptr], arrs)

\* An address not in use.
NewIn(F) == CHOOSE n \in 1..(Cardinality(DOMAIN F) + 1) : n \notin DOMAIN F

\* A decoded value placed in fresh memory: a new DB instance and, for a non-nil
\* slice, a new backing array.
Fresh(kind, dv, H, A) ==
    IF kind = "Vals" /\ ~dv.isNil
    THEN [heap |-> (NewIn(H) :> [Vals |-> NewIn(A)]) @@ H,
          arrs |-> (NewIn(A) :> dv.elems) @@ A,
          db |-> NewIn(H)]
    ELSE [heap |-> (NewIn(H) :> IF kind = "Vals" THEN [Vals |-> 0] ELSE dv) @@ H,
          arrs |-> A,
          db |-> NewIn(H)]

\* Garbage collection: the instances and arrays no root reaches are gone.
Collect(H, A, roots, own) ==
    LET H2 == [p \in DOMAIN H \cap roots |-> H[p]]
        liveA == own \cup (IF DB = "Vals" THEN {H2[p].Vals : p \in DOMAIN H2} ELSE {})
    IN  [heap |-> H2, arrs |-> [a \in DOMAIN A \cap liveA |-> A[a]]]

\* someVals: the slice a caller builds before it calls Write.
Iota(n) == [i \in 1..n |-> i % (MaxVal + 1)]

\* ---------------------------------------------------------------- mutators
\* The functions fn a caller passes to Write: what they do to *db and whether
\* they return an error afterwards.
NoFn == [op |-> "noop", n |-> 0, fail |-> FALSE]
FnOps(kind) ==
    CASE kind = "Val"   -> [op : {"set"}, n : Ints]
      [] kind = "Int"   -> [op : {"set"}, n : Ints]
      [] kind = "Vals"  -> [op : {"set"}, n : 0..MaxLen] \cup [op : {"poke"}, n : Ints]
                             \cup [op : {"clear"}, n : {0}]
      [] kind = "Map"   -> [op : {"set"}, n : Ints] \cup [op : {"clear"}, n : {0}]
      [] kind = "Iface" -> [op : {"set", "bad", "clear"}, n : {0}]
Mutators(kind) ==
    { [op |-> o.op, n |-> o.n, fail |-> f] :
        o \in FnOps(kind) \cup {[op |-> "noop", n |-> 0]}, f \in BOOLEAN }
\* db.Val++: a mutator whose result depends on the value it is given.
Counters == {[op |-> "inc", n |-> 1, fail |-> FALSE]}
\* Mutators that call p.Read or p.Write of the JSONFileDB they are run by.
Reentrant == {[op |-> o, n |-> 0, fail |-> FALSE] : o \in {"callRead", "callWrite"}}

\* fn(db): *db, the arrays and the caller's array after the body of fn has run.
Apply(kind, fn, v, A, O) ==
    LET same == [v |-> v, arrs |-> A, owned |-> O]
        to(w) == [v |-> w, arrs |-> A, owned |-> O]
    IN  IF fn.op = "noop" THEN same
        ELSE CASE kind = "Val"  -> IF fn.op = "inc" THEN to([Val |-> v.Val + fn.n])
                                   ELSE to([Val |-> fn.n])
               [] kind = "Int"  -> to([Int |-> fn.n])
               [] kind = "Vals" ->
                    IF fn.op = "set"          \* db.Vals = someVals
                    THEN [v |-> [Vals |-> NewIn(A)],
                          arrs |-> (NewIn(A) :> Iota(fn.n)) @@ A,
                          owned |-> {NewIn(A)}]
                    ELSE IF fn.op = "clear" THEN to([Vals |-> 0])
                    ELSE IF v.Vals # 0 /\ Len(A[v.Vals]) > 0   \* db.Vals[0] = n
                    THEN [v |-> v, arrs |-> [A EXCEPT ![v.Vals][1] = fn.n], owned |-> O]
                    ELSE same
               [] kind = "Map" ->
                    IF fn.op = "set" THEN to([isNil |-> FALSE, m |-> MapOf(fn.n)])
                    ELSE to([isNil |-> FALSE, m |-> EmptyMap])
               [] kind = "Iface" ->
                    IF fn.op = "set" THEN to([V |-> "errorString"])
                    ELSE IF fn.op = "bad" THEN to([V |-> "badMarshaler"])
                    ELSE to([V |-> "nil"])

\* ------------------------------------------------------------- file system
\* os.CreateTemp(dir, base+".tmp"): a new, empty file under a name not in use.
CreateTemp(name) == [file |-> file, temps |-> (name :> <<>>) @@ temps]
\* A variant that writes to p.path itself.
MutWriteTarget(name, b) == [file |-> Regular(b), temps |-> temps]
\* f.Write(b): the bytes that reached the temp file.
FWrite(name, b) == [file |-> file, temps |-> [temps EXCEPT ![name] = b]]
\* A variant that leaves a file that is already at p.path in place.
MutRenameNoReplace(name) ==
    [file |-> IF file.k = "file" THEN file ELSE Regular(temps[name]),
     temps |-> [n \in DOMAIN temps \ {name} |-> temps[n]]]
\* os.Rename(f.Name(), p.path): the temp file becomes the file at p.path.
Rename(name) ==
    [file |-> Regular(temps[name]),
     temps |-> [n \in DOMAIN temps \ {name} |-> temps[n]]]

\* The documents a file can hold before the program first runs.
Sample(kind) ==
    CASE kind = "Val"   -> [Val |-> 1]
      [] kind = "Int"   -> [Int |-> 1]
      [] kind = "Vals"  -> [isNil |-> FALSE, elems |-> <<1>>]
      [] kind = "Map"   -> [isNil |-> FALSE, m |-> MapOf(1)]
      [] kind = "Iface" -> [V |-> "nil"]
Spaced(b) == <<b[1], " ">> \o Tail(b)
InitDocs(kind) ==
    { <<"x">>, <<"{", "}">>, Marshal(kind, Sample(kind)), Spaced(Marshal(kind, Sample(kind))) }
InitFiles(kind) == {Absent, Dir} \cup {Regular(b) : b \in InitDocs(kind)}

\* ------------------------------------------------------------------- calls
NoStore == [st |-> "none", by |-> "", data |-> <<>>, db |-> 0]
Unlocked == [w |-> 0, pend |-> 0, r |-> {}]
NoSnap == [file |-> Absent, data |-> <<>>, db |-> 0, dbv |-> Zero(DB)]
Idle == [pc |-> "idle", op |-> "", s |-> 0, fn |-> NoFn, db |-> 0, data |-> <<>>,
         f |-> 0, err |-> NoErr, ret |-> NoErr, ops |-> <<>>, pre |-> NoSnap,
         obs |-> Zero(DB), nested |-> FALSE]
NoLast == [op |-> "", fn |-> NoFn, ret |-> NoErr, ops |-> <<>>, pre |-> NoSnap,
           data |-> <<>>]

Free(t) == call[t].pc \in {"idle", "ret"}
\* What a call finds when it has the lock.
Snap(s) == [file |-> file, data |-> store[s].data, db |-> store[s].db,
            dbv |-> Deep(store[s].db)]

Init ==
    /\ DB \in Kinds
    /\ file \in InitFiles(DB)
    /\ temps = NoTemps
    /\ dirw = TRUE
    /\ heap = NoHeap
    /\ arrs = NoHeap
    /\ store = [s \in Stores |-> NoStore]
    /\ mu = [s \in Stores |-> Unlocked]
    /\ call = [t \in {1} |-> Idle]
    /\ last = [s \in Stores |-> NoLast]
    /\ handed = {}
    /\ owned = {}
    /\ spent = 0

\* The *DB some JSONFileDB or some call other than t's still refers to.
Roots(t, st, hd) ==
    {st[s].db : s \in Stores} \cup hd \cup {call[u].db : u \in Procs \ {t}}

\* return: the deferred p.mu.Unlock() runs, and New wraps the error of its Write
\* and hands out the JSONFileDB only when there was none.  c holds the locals of
\* the call; st, H, A, hd and ow are the JSONFileDBs, the heap, the arrays and
\* what the caller holds as the returning step leaves them.
Finish(t, c, err, st, H, A, hd, ow) ==
    LET s == c.s
        e == IF c.op = "New" /\ err # NoErr THEN <<"JSONFileDB.New">> \o err ELSE err
        st2 == IF c.op = "New"
               THEN [st EXCEPT ![s] = IF err = NoErr
                                      THEN [@ EXCEPT !.st = "live"]
                                      ELSE NoStore]
               ELSE st
        g == Collect(H, A, Roots(t, st2, hd), ow)
    IN  /\ call' = [call EXCEPT ![t] =
                      [Idle EXCEPT !.pc = "ret", !.op = c.op, !.s = s, !.ret = e]]
        /\ mu' = [mu EXCEPT ![s].w = 0]
        /\ store' = st2
        /\ last' = [last EXCEPT ![s] =
                      [op |-> c.op, fn |-> c.fn, ret |-> e, ops |-> c.ops,
                       pre |-> c.pre, data |-> c.data]]
        /\ heap' = g.heap
        /\ arrs' = g.arrs
        /\ handed' = hd
        /\ owned' = ow

Step(t, c) == call' = [call EXCEPT ![t] = c]

\* New[DB](path), up to its call of p.Write.
New(t, s) ==
    /\ Free(t) /\ spent < Budget
    /\ store[s].st = "none"
    /\ s = 1 \/ store[1].st # "none"
    /\ spent' = spent + 1
    /\ LET m == Fresh(DB, Zero(DB), heap, arrs)
       IN  /\ heap' = m.heap
           /\ store' = [store EXCEPT ![s] =
                          [st |-> "init", by |-> "New", data |-> <<"{", "}">>,
                           db |-> m.db]]
    /\ Step(t, [Idle EXCEPT !.pc = "lock", !.op = "New", !.s = s])
    /\ UNCHANGED <<DB, file, temps, dirw, arrs, mu, last, handed, owned>>

\* A variant that reads a missing file as an empty one.
MutReadFileEmpty(f) == IF f.k = "dir" THEN <<"EISDIR">> ELSE NoErr
\* p.data, err = os.ReadFile(path): the error.
ReadFile(f) ==
    IF f.k = "absent" THEN <<"ENOENT">>
    ELSE IF f.k = "dir" THEN <<"EISDIR">>
    ELSE NoErr

\* Load[DB](path).
Load(t, s) ==
    /\ Free(t)
    /\ store[s].st = "none"
    /\ s = 1 \/ store[1].st # "none"
    /\ LET r == Unmarshal(DB, file.b)
           err == IF ReadFile(file) # NoErr THEN <<"JSONFileDB.Load">> \o ReadFile(file)
                  ELSE IF ~r.ok THEN <<"JSONFileDB.Load", "json">>
                  ELSE NoErr
           m == Fresh(DB, r.v, heap, arrs)
       IN  /\ Step(t, [Idle EXCEPT !.pc = "ret", !.op = "Load", !.s = s, !.ret = err])
           /\ IF err = NoErr
              THEN /\ heap' = m.heap
                   /\ arrs' = m.arrs
                   /\ store' = [store EXCEPT ![s] =
                                  [st |-> "live", by |-> "Load", data |-> file.b,
                                   db |-> m.db]]
              ELSE UNCHANGED <<heap, arrs, store>>
    /\ UNCHANGED <<DB, file, temps, dirw, mu, last, handed, owned, spent>>

\* p.Write(fn) is called.
Write(t, s, fn) ==
    /\ Free(t) /\ spent < Budget
    /\ store[s].st = "live"
    /\ spent' = spent + 1
    /\ Step(t, [Idle EXCEPT !.pc = "lock", !.op = "Write", !.s = s, !.fn = fn])
    /\ UNCHANGED <<DB, file, temps, dirw, heap, arrs, store, mu, last, handed, owned>>

\* p.Write(func(*DB) error { return nil }) is called: a Write by a fn that does
\* nothing can be called any number of times.
WriteNoop(t, s) ==
    /\ Free(t)
    /\ store[s].st = "live"
    /\ Step(t, [Idle EXCEPT !.pc = "lock", !.op = "Write", !.s = s, !.fn = NoFn])
    /\ UNCHANGED <<DB, file, temps, dirw, heap, arrs, store, mu, last, handed, owned, spent>>

\* A variant that lets a writer in whoever holds the lock.
MutLockAnytime(s) == TRUE
\* A variant that lets a writer in although a writer holds the lock.
MutLockIgnoresHolder(s) == mu[s].pend = 0
\* Whether p.mu.Lock() can go ahead: no other writer holds or awaits the lock.
CanLock(s) == mu[s].w = 0 /\ mu[s].pend = 0

\* p.mu.Lock(): no other writer holds or awaits the lock; readers inside make it wait.
Lock(t) ==
    LET c == call[t]
        s == c.s
    IN  /\ c.pc = "lock"
        /\ CanLock(s)
        /\ IF mu[s].r = {}
           THEN /\ mu' = [mu EXCEPT ![s].w = t]
                /\ Step(t, [c EXCEPT !.pc = "unmarshal", !.pre = Snap(s)])
           ELSE /\ mu' = [mu EXCEPT ![s].pend = t]
                /\ Step(t, [c EXCEPT !.pc = "lockwait"])
        /\ UNCHANGED <<DB, file, temps, dirw, heap, arrs, store, last, handed, owned, spent>>

\* p.mu.Lock() returns once the readers that were inside have left.
LockWait(t) ==
    LET c == call[t]
        s == c.s
    IN  /\ c.pc = "lockwait"
        /\ mu[s].pend = t /\ mu[s].r = {}
        /\ mu' = [mu EXCEPT ![s].w = t, ![s].pend = 0]
        /\ Step(t, [c EXCEPT !.pc = "unmarshal", !.pre = Snap(s)])
        /\ UNCHANGED <<DB, file, temps, dirw, heap, arrs, store, last, handed, owned, spent>>

\* A variant that hands p.db itself to fn.
MutWorkOnCurrent(s, dv) == [heap |-> heap, arrs |-> arrs, db |-> store[s].db]
\* db := new(DB); json.Unmarshal(p.data, db): where the copy fn works on lives.
WorkingCopy(s, dv) == Fresh(DB, dv, heap, arrs)

Write_Unmarshal(t) ==
    LET c == call[t]
        s == c.s
        r == Unmarshal(DB, store[s].data)
        w == WorkingCopy(s, r.v)
    IN  /\ c.pc = "unmarshal"
        /\ IF r.ok
           THEN /\ heap' = w.heap
                /\ arrs' = w.arrs
                /\ Step(t, [c EXCEPT !.pc = "fn", !.db = w.db])
                /\ UNCHANGED <<store, mu, last, handed, owned>>
           ELSE Finish(t, c, <<"JSONFileDB.Write", "json">>, store, heap, arrs,
                       handed, owned)
        /\ UNCHANGED <<DB, file, temps, dirw, spent>>

\* err := fn(db)
Write_fn(t) ==
    LET c == call[t]
        a == Apply(DB, c.fn, heap[c.db], arrs, owned)
        H == [heap EXCEPT ![c.db] = a.v]
        hd == IF c.op = "Write" THEN {c.db} ELSE handed
    IN  /\ c.pc = "fn"
        /\ IF c.fn \in Reentrant
           THEN \* fn calls p.Read or p.Write: that call begins, on top of this one
                /\ Step(t, [Idle EXCEPT !.pc = IF c.fn.op = "callRead" THEN "rlock" ELSE "lock",
                                        !.op = IF c.fn.op = "callRead" THEN "Read" ELSE "Write",
                                        !.s = c.s, !.db = c.db, !.nested = TRUE])
                /\ handed' = hd
                /\ UNCHANGED <<heap, arrs, owned, store, mu, last>>
           ELSE IF c.fn.fail
           THEN Finish(t, c, <<"rollback">>, store, H, a.arrs, hd, a.owned)
           ELSE /\ heap' = H
                /\ arrs' = a.arrs
                /\ handed' = hd
                /\ owned' = a.owned
                /\ Step(t, [c EXCEPT !.pc = "marshal"])
                /\ UNCHANGED <<store, mu, last>>
        /\ UNCHANGED <<DB, file, temps, dirw, spent>>

\* A variant that never finds the bytes equal.
MutNeverEqual(data, s) == FALSE
\* bytes.Equal(data, p.data)
NoChange(data, s) == data = store[s].data

\* data, err := json.Marshal(db), and the return when nothing changed.
Write_Marshal(t) ==
    LET c == call[t]
        s == c.s
        v == Deep(c.db)
        data == Marshal(DB, v)
    IN  /\ c.pc = "marshal"
        /\ IF ~MarshalOk(DB, v)
           THEN Finish(t, c, <<"JSONFileDB.Write", "json: marshal">>, store, heap, arrs,
                       handed, owned)
           ELSE IF NoChange(data, s)
           THEN Finish(t, [c EXCEPT !.data = data], NoErr, store, heap, arrs,
                       handed, owned)
           ELSE /\ Step(t, [c EXCEPT !.pc = "createtemp", !.data = data])
                /\ UNCHANGED <<store, mu, last, heap, arrs, handed, owned>>
        /\ UNCHANGED <<DB, file, temps, dirw, spent>>

\* Whether the operating system may fail this call for a reason of its own.
Faults == IF spent < Budget THEN {FALSE, TRUE} ELSE {FALSE}

\* f, err := os.CreateTemp(filepath.Dir(p.path), filepath.Base(p.path)+".tmp")
Write_CreateTemp(t) ==
    LET c == call[t]
        fs == CreateTemp(NewIn(temps))
    IN  /\ c.pc = "createtemp"
        /\ \E fault \in Faults :
              LET e == IF fault THEN "EMFILE" ELSE IF ~dirw THEN "EACCES" ELSE "ok"
                  c2 == [c EXCEPT !.ops = Append(@, <<"CreateTemp", e>>)]
              IN  /\ spent' = IF fault THEN spent + 1 ELSE spent
                  /\ IF e # "ok"
                     THEN /\ Finish(t, c2, <<"JSONFileDB.Write: temp", e>>,
                                    store, heap, arrs, handed, owned)
                          /\ UNCHANGED <<file, temps>>
                     ELSE /\ file' = fs.file
                          /\ temps' = fs.temps
                          /\ Step(t, [c2 EXCEPT !.pc = "fwrite", !.f = NewIn(temps)])
                          /\ UNCHANGED <<store, mu, last, heap, arrs, handed, owned>>
        /\ UNCHANGED <<DB, dirw>>

\* _, err = f.Write(data): all of data, or a prefix of it and an error.
Write_fWrite(t) ==
    LET c == call[t]
    IN  /\ c.pc = "fwrite"
        /\ \E k \in 0..Len(c.data) :
              LET fs == FWrite(c.f, SubSeq(c.data, 1, k))
              IN  /\ k < Len(c.data) => spent < Budget
                  /\ spent' = IF k < Len(c.data) THEN spent + 1 ELSE spent
                  /\ file' = fs.file
                  /\ temps' = fs.temps
                  /\ Step(t, [c EXCEPT !.pc = "fclose",
                                       !.ops = Append(@, <<"Write",
                                                  IF k = Len(c.data) THEN "ok"
                                                  ELSE "ENOSPC">>),
                                       !.err = IF k = Len(c.data) THEN NoErr
                                               ELSE <<"ENOSPC">>])
        /\ UNCHANGED <<DB, dirw, heap, arrs, store, mu, last, handed, owned>>

\* A variant that forgets the error of f.Write.
MutCloseErrOnly(err, err1) == err1
\* if err1 := f.Close(); err1 != nil && err == nil { err = err1 }
FirstErr(err, err1) == IF err1 # NoErr /\ err = NoErr THEN err1 ELSE err

\* err1 := f.Close(), and the return when the write or the close failed.
Write_fClose(t) ==
    LET c == call[t]
    IN  /\ c.pc = "fclose"
        /\ \E fault \in Faults :
              LET err1 == IF fault THEN <<"EIO">> ELSE NoErr
                  err == FirstErr(c.err, err1)
                  c2 == [c EXCEPT !.ops = Append(@, <<"Close",
                                              IF fault THEN "EIO" ELSE "ok">>)]
              IN  /\ spent' = IF fault THEN spent + 1 ELSE spent
                  /\ IF err # NoErr
                     THEN Finish(t, c2, <<"JSONFileDB.Write">> \o err, store, heap, arrs,
                                 handed, owned)
                     ELSE /\ Step(t, [c2 EXCEPT !.pc = "rename"])
                          /\ UNCHANGED <<store, mu, last, heap, arrs, handed, owned>>
        /\ UNCHANGED <<DB, file, temps, dirw>>

\* os.Rename(f.Name(), p.path)
Write_Rename(t) ==
    LET c == call[t]
        fs == Rename(c.f)
    IN  /\ c.pc = "rename"
        /\ \E fault \in Faults :
              LET e == IF fault THEN "EIO"
                       ELSE IF file.k = "dir" THEN "EEXIST"
                       ELSE IF ~dirw THEN "EACCES"
                       ELSE "ok"
                  c2 == [c EXCEPT !.ops = Append(@, <<"Rename", e>>)]
              IN  /\ spent' = IF fault THEN spent + 1 ELSE spent
                  /\ IF e # "ok"
                     THEN /\ Finish(t, c2, <<"JSONFileDB.Write: rename", e>>, store,
                                    heap, arrs, handed, owned)
                          /\ UNCHANGED <<file, temps>>
                     ELSE /\ file' = fs.file
                          /\ temps' = fs.temps
                          /\ Step(t, [c2 EXCEPT !.pc = "remat"])
                          /\ UNCHANGED <<store, mu, last, heap, arrs, handed, owned>>
        /\ UNCHANGED <<DB, dirw>>

\* A variant that keeps the instance fn worked on.
MutKeepCopy(c, dv) == [heap |-> heap, arrs |-> arrs, db |-> c.db]
\* db = new(DB); json.Unmarshal(data, db): where the value p.db is set to lives.
Rematerialize(c, dv) == Fresh(DB, dv, heap, arrs)

\* A variant that replaces the bytes and keeps the old value.
MutCommitBytesOnly(st, s, db, data) == [st EXCEPT ![s].data = data]
\* p.db = db; p.data = data
Commit(st, s, db, data) == [st EXCEPT ![s].db = db, ![s].data = data]

\* The decode of the written bytes, then p.db = db; p.data = data; return nil.
Write_Commit(t) ==
    LET c == call[t]
        s == c.s
        r == Unmarshal(DB, c.data)
        w == Rematerialize(c, r.v)
    IN  /\ c.pc = "remat"
        /\ IF r.ok
           THEN Finish(t, c, NoErr, Commit(store, s, w.db, c.data),
                       w.heap, w.arrs, handed, owned)
           ELSE Finish(t, c, <<"JSONFileDB.Write", "json">>, store, heap, arrs,
                       handed, owned)
        /\ UNCHANGED <<DB, file, temps, dirw, spent>>

\* p.Read(fn) is called.
Read(t, s) ==
    /\ Free(t)
    /\ store[s].st = "live"
    /\ Step(t, [Idle EXCEPT !.pc = "rlock", !.op = "Read", !.s = s])
    /\ UNCHANGED <<DB, file, temps, dirw, heap, arrs, store, mu, last, handed, owned, spent>>

\* A variant that lets a reader in whoever holds the lock.
MutRLockAnytime(s) == TRUE
\* A variant that lets a reader in while a writer waits for the readers to leave.
MutRLockIgnoresPending(s) == mu[s].w = 0
\* Whether p.mu.RLock() can go ahead: no writer holds or awaits the lock.
CanRLock(s) == mu[s].w = 0 /\ mu[s].pend = 0

\* p.mu.RLock(): no writer holds or awaits the lock.
RLock(t) ==
    LET c == call[t]
        s == c.s
    IN  /\ c.pc = "rlock"
        /\ CanRLock(s)
        /\ mu' = [mu EXCEPT ![s].r = @ \cup {t}]
        /\ Step(t, [c EXCEPT !.pc = "visit", !.pre = Snap(s)])
        /\ UNCHANGED <<DB, file, temps, dirw, heap, arrs, store, last, handed, owned, spent>>

\* fn(p.db): the visitor looks at the value.
Read_fn(t) ==
    LET c == call[t]
    IN  /\ c.pc = "visit"
        /\ Step(t, [c EXCEPT !.pc = "runlock", !.obs = Deep(store[c.s].db)])
        /\ UNCHANGED <<DB, file, temps, dirw, heap, arrs, store, mu, last, handed, owned, spent>>

\* the deferred p.mu.RUnlock(), and the return.
RUnlock(t) ==
    LET c == call[t]
    IN  /\ c.pc = "runlock"
        /\ mu' = [mu EXCEPT ![c.s].r = @ \ {t}]
        /\ Step(t, [Idle EXCEPT !.pc = "ret", !.op = "Read", !.s = c.s])
        /\ UNCHANGED <<DB, file, temps, dirw, heap, arrs, store, last, handed, owned, spent>>

\* ------------------------------------------------------------- environment
AllFree == \A t \in Procs : Free(t)

\* The arrays the caller can reach: its own, and those of the *DB it was handed.
CallerArrays ==
    IF DB = "Vals"
    THEN (owned \cup {heap[p].Vals : p \in handed \cap DOMAIN heap}) \cap DOMAIN arrs
    ELSE {}

\* someVals[i] = n, after Write has returned.
CallerPoke(a, i, n) ==
    /\ AllFree
    /\ a \in CallerArrays
    /\ i \in 1..Len(arrs[a])
    /\ arrs[a][i] # n
    /\ arrs' = [arrs EXCEPT ![a][i] = n]
    /\ UNCHANGED <<DB, file, temps, dirw, heap, store, mu, call, last, handed, owned, spent>>

\* The caller assigns through the *DB it kept from a mutator, after Write has returned.
CallerAssign(p, o) ==
    LET a == Apply(DB, [op |-> o.op, n |-> o.n, fail |-> FALSE], heap[p], arrs, owned)
    IN  /\ AllFree
        /\ p \in handed
        /\ DB # "Vals"
        /\ a.v # heap[p]
        /\ heap' = [heap EXCEPT ![p] = a.v]
        /\ UNCHANGED <<DB, file, temps, dirw, arrs, store, mu, call, last, handed, owned, spent>>

\* os.Chmod(filepath.Dir(path), ...) between two calls: the directory stops or
\* starts being writable.
Chmod ==
    /\ AllFree
    /\ dirw' = ~dirw
    /\ UNCHANGED <<DB, file, temps, heap, arrs, store, mu, call, last, handed, owned, spent>>

\* The process dies and is started again: memory is lost, files stay.
Crash ==
    /\ spent < Budget
    /\ spent' = spent + 1
    /\ heap' = NoHeap
    /\ arrs' = NoHeap
    /\ store' = [s \in Stores |-> NoStore]
    /\ mu' = [s \in Stores |-> Unlocked]
    /\ call' = [t \in Procs |-> Idle]
    /\ last' = [s \in Stores |-> NoLast]
    /\ handed' = {}
    /\ owned' = {}
    /\ UNCHANGED <<DB, file, temps, dirw>>

\* ------------------------------------------------------------ specification
\* One goroutine: JSONFileDB 1 is created or loaded and written; JSONFileDB 2 is
\* a second Load of the same path, which is only read.
Next ==
    \/ \E t \in Procs : New(t, 1)
    \/ \E t \in Procs, s \in Stores : Load(t, s)
    \/ \E t \in Procs : \E fn \in Mutators(DB) : Write(t, 1, fn)
    \/ \E t \in Procs : Lock(t)
    \/ \E t \in Procs : Write_Unmarshal(t)
    \/ \E t \in Procs : Write_fn(t)
    \/ \E t \in Procs : Write_Marshal(t)
    \/ \E t \in Procs : Write_CreateTemp(t)
    \/ \E t \in Procs : Write_fWrite(t)
    \/ \E t \in Procs : Write_fClose(t)
    \/ \E t \in Procs : Write_Rename(t)
    \/ \E t \in Procs : Write_Commit(t)
    \/ \E t \in Procs, s \in Stores : Read(t, s)
    \/ \E t \in Procs : RLock(t)
    \/ \E t \in Procs : Read_fn(t)
    \/ \E t \in Procs : RUnlock(t)
    \/ \E a \in DOMAIN arrs, i \in 1..MaxLen, n \in Ints : CallerPoke(a, i, n)
    \/ \E p \in handed : \E o \in FnOps(DB) : CallerAssign(p, o)
    \/ Chmod
    \/ Crash

Spec == Init /\ [][Next]_vars

\* Several goroutines share one JSONFileDB[struct{ Val int }], which one of them
\* creates or loads; they call Read and Write as they please.
Goroutines == {1, 2, 3}
InitConc ==
    /\ DB = "Val"
    /\ file \in {Absent, Regular(Marshal(DB, Sample(DB)))}
    /\ temps = NoTemps
    /\ dirw = TRUE
    /\ heap = NoHeap
    /\ arrs = NoHeap
    /\ store = [s \in Stores |-> NoStore]
    /\ mu = [s \in Stores |-> Unlocked]
    /\ call = [t \in Goroutines |-> Idle]
    /\ last = [s \in Stores |-> NoLast]
    /\ handed = {}
    /\ owned = {}
    /\ spent = 0

\* The steps goroutine t takes inside a call.
Inside(t) ==
    \/ Lock(t)
    \/ LockWait(t)
    \/ Write_Unmarshal(t)
    \/ Write_fn(t)
    \/ Write_Marshal(t)
    \/ Write_CreateTemp(t)
    \/ Write_fWrite(t)
    \/ Write_fClose(t)
    \/ Write_Rename(t)
    \/ Write_Commit(t)
    \/ RLock(t)
    \/ Read_fn(t)
    \/ RUnlock(t)

NextConc ==
    \/ \E t \in Procs : New(t, 1)
    \/ \E t \in Procs : Load(t, 1)
    \/ \E t \in Procs : \E fn \in Mutators(DB) \cup Counters : Write(t, 1, fn)
    \/ \E t \in Procs : Read(t, 1)
    \/ \E t \in Procs : Lock(t)
    \/ \E t \in Procs : LockWait(t)
    \/ \E t \in Procs : Write_Unmarshal(t)
    \/ \E t \in Procs : Write_fn(t)
    \/ \E t \in Procs : Write_Marshal(t)
    \/ \E t \in Procs : Write_CreateTemp(t)
    \/ \E t \in Procs : Write_fWrite(t)
    \/ \E t \in Procs : Write_fClose(t)
    \/ \E t \in Procs : Write_Rename(t)
    \/ \E t \in Procs : Write_Commit(t)
    \/ \E t \in Procs : RLock(t)
    \/ \E t \in Procs : Read_fn(t)
    \/ \E t \in Procs : RUnlock(t)

SpecConc == InitConc /\ [][NextConc]_vars

\* As NextConc, and the fn of a Write may call Read or Write of the same JSONFileDB.
NextRe ==
    \/ \E t \in Procs : New(t, 1)
    \/ \E t \in Procs : Load(t, 1)
    \/ \E t \in Procs : \E fn \in Mutators(DB) \cup Reentrant : Write(t, 1, fn)
    \/ \E t \in Procs : Read(t, 1)
    \/ \E t \in Procs : Lock(t)
    \/ \E t \in Procs : LockWait(t)
    \/ \E t \in Procs : Write_Unmarshal(t)
    \/ \E t \in Procs : Write_fn(t)
    \/ \E t \in Procs : Write_Marshal(t)
    \/ \E t \in Procs : Write_CreateTemp(t)
    \/ \E t \in Procs : Write_fWrite(t)
    \/ \E t \in Procs : Write_fClose(t)
    \/ \E t \in Procs : Write_Rename(t)
    \/ \E t \in Procs : Write_Commit(t)
    \/ \E t \in Procs : RLock(t)
    \/ \E t \in Procs : Read_fn(t)
    \/ \E t \in Procs : RUnlock(t)
SpecRe == InitConc /\ [][NextRe]_vars

\* Two JSONFileDB[struct{ Val int }] values on one path, each used by a
\* goroutine of its own: the first is created or loaded, the second is loaded
\* once the first exists.  Their Writes run side by side; their Reads and
\* their Writes that change nothing begin when no other call is under way.
\* No JSONFileDB is shared, so no Lock waits for a reader to leave.
InitTwo ==
    /\ DB = "Val"
    /\ file \in {Absent, Regular(Marshal(DB, Sample(DB)))}
    /\ temps = NoTemps
    /\ dirw = TRUE
    /\ heap = NoHeap
    /\ arrs = NoHeap
    /\ store = [s \in Stores |-> NoStore]
    /\ mu = [s \in Stores |-> Unlocked]
    /\ call = [t \in Stores |-> Idle]
    /\ last = [s \in Stores |-> NoLast]
    /\ handed = {}
    /\ owned = {}
    /\ spent = 0
NextTwo ==
    \/ New(1, 1)
    \/ \E t \in Procs : Load(t, t)
    \/ \E t \in Procs : \E fn \in Mutators(DB) \cup Counters : Write(t, t, fn)
    \/ \E t \in Procs : AllFree /\ WriteNoop(t, t)
    \/ \E t \in Procs : AllFree /\ Read(t, t)
    \/ \E t \in Procs : Lock(t)
    \/ \E t \in Procs : Write_Unmarshal(t)
    \/ \E t \in Procs : Write_fn(t)
    \/ \E t \in Procs : Write_Marshal(t)
    \/ \E t \in Procs : Write_CreateTemp(t)
    \/ \E t \in Procs : Write_fWrite(t)
    \/ \E t \in Procs : Write_fClose(t)
    \/ \E t \in Procs : Write_Rename(t)
    \/ \E t \in Procs : Write_Commit(t)
    \/ \E t \in Procs : RLock(t)
    \/ \E t \in Procs : Read_fn(t)
    \/ \E t \in Procs : RUnlock(t)
SpecTwo == InitTwo /\ [][NextTwo]_vars

\* A JSONFileDB loaded from a file: goroutine 1 writes it, goroutine 2 writes
\* it without changing it, and goroutines 2 and 3 read it, for ever.
InitLive == InitConc /\ file # Absent
NextLive ==
    \/ Load(1, 1)
    \/ \E fn \in Mutators(DB) : Write(1, 1, fn)
    \/ \E t \in {1, 2} : WriteNoop(t, 1)
    \/ \E t \in {2, 3} : Read(t, 1)
    \/ \E t \in Procs : Lock(t)
    \/ \E t \in Procs : LockWait(t)
    \/ \E t \in Procs : Write_Unmarshal(t)
    \/ \E t \in Procs : Write_fn(t)
    \/ \E t \in Procs : Write_Marshal(t)
    \/ \E t \in Procs : Write_CreateTemp(t)
    \/ \E t \in Procs : Write_fWrite(t)
    \/ \E t \in Procs : Write_fClose(t)
    \/ \E t \in Procs : Write_Rename(t)
    \/ \E t \in Procs : Write_Commit(t)
    \/ \E t \in Procs : RLock(t)
    \/ \E t \in Procs : Read_fn(t)
    \/ \E t \in Procs : RUnlock(t)

\* The scheduler runs every goroutine that can run (weak fairness), and
\* sync.RWMutex passes the lock on to a goroutine blocked in Lock or RLock
\* rather than let others overtake it for ever (strong fairness).
SpecLive ==
    /\ InitLive /\ [][NextLive]_vars
    /\ \A t \in Goroutines :
          WF_vars(Inside(t)) /\ SF_vars(Lock(t)) /\ SF_vars(RLock(t))

\* ------------------------------------------------------------------ claims
\* No New or Write of JSONFileDB s is in progress.
Quiet(s) == \A t \in Procs : Free(t) \/ call[t].s # s \/ call[t].op = "Read"
\* The last call on s that returned was Write, and nothing has begun on s since.
AfterWrite(s) == store[s].st = "live" /\ last[s].op = "Write" /\ Quiet(s)
\* A Read of s whose visitor has run.
Visited(t, s) == call[t].op = "Read" /\ call[t].s = s /\ call[t].pc = "runlock"
\* Memory of s is what the last call found.
MemoryAsBefore(s) ==
    /\ store[s].data = last[s].pre.data
    /\ store[s].db = last[s].pre.db
    /\ Deep(store[s].db) = last[s].pre.dbv
    /\ \A t \in Procs : Visited(t, s) => call[t].obs = last[s].pre.dbv
\* The file system calls of the last call on s that failed.
Failed(s) == {i \in 1..Len(last[s].ops) : last[s].ops[i][2] # "ok"}

\* C1: the file at p.path changes only in the rename step of a Write, and then
\* to the whole of the document that Write encoded; no other step (a write to
\* the temp file that stops short, a failed close or rename, a crash) touches it.
C1_TargetChangesOnlyByRename ==
    [][file' # file =>
         \E t \in Procs :
            /\ call[t].pc = "rename" /\ call'[t].pc = "remat"
            /\ call[t].data = Marshal(DB, Deep(call[t].db))
            /\ file' = Regular(call[t].data)]_vars

\* A write to the temp file stopped short: part of the new document is in the
\* temp file, and the file at p.path still holds the whole previous document.
C1_Witness ==
    \E t \in Procs :
       /\ call[t].pc = "fclose" /\ call[t].err # NoErr
       /\ temps[call[t].f] # <<>>
       /\ file.k = "file" /\ file = call[t].pre.file

\* C2: when the mutator returns an error, Write returns that error as it is,
\* makes no file system call, and leaves p.data, p.db and the value p.db points
\* to as they were; a Read that follows sees the value from before the call.
C2_MutatorErrorRollsBack ==
    \A s \in Stores :
       AfterWrite(s) /\ last[s].fn.fail =>
          /\ last[s].ret = <<"rollback">>
          /\ last[s].ops = <<>>
          /\ file = last[s].pre.file
          /\ MemoryAsBefore(s)

\* A mutator changed its argument and returned an error, and a Read has looked.
C2_Witness ==
    /\ AfterWrite(1) /\ last[1].fn.fail
    /\ DB = "Val" /\ last[1].fn.op = "set" /\ last[1].fn.n # last[1].pre.dbv.Val
    /\ Visited(1, 1)

\* C3: when CreateTemp, the write to the temp file, its close or the rename
\* fails, Write returns an error that wraps the first failure, and the file at
\* p.path, p.data, p.db and its value are as before the call.
C3_IOErrorRollsBack ==
    \A s \in Stores :
       AfterWrite(s) /\ Failed(s) # {} =>
          LET i == CHOOSE j \in Failed(s) : \A k \in Failed(s) : j <= k
              step == last[s].ops[i]
          IN  /\ last[s].ret =
                    <<IF step[1] = "CreateTemp" THEN "JSONFileDB.Write: temp"
                      ELSE IF step[1] = "Rename" THEN "JSONFileDB.Write: rename"
                      ELSE "JSONFileDB.Write", step[2]>>
              /\ file = last[s].pre.file
              /\ MemoryAsBefore(s)

\* A rename failed after the new document was written to the temp file, and a
\* Read has looked.
C3_Witness ==
    /\ AfterWrite(1)
    /\ last[1].ops # <<>> /\ last[1].ops[Len(last[1].ops)] = <<"Rename", "EIO">>
    /\ Visited(1, 1)

\* C4: original statement.  A Write that fails in a decode (of p.data at the
\* start, or of the bytes it has just written) leaves the file at p.path,
\* p.data, p.db and its value as they were before the call.
C4_DecodeErrorRollsBack ==
    \A s \in Stores :
       AfterWrite(s) /\ last[s].ret = <<"JSONFileDB.Write", "json">> =>
          /\ file = last[s].pre.file
          /\ MemoryAsBefore(s)

\* The other JSONFileDB does not exist.
Solo(s) == \A o \in Stores \ {s} : store[o].st = "none"

\* C5: original statement.  When the only JSONFileDB of the path has no New or
\* Write in progress, p.data is the bytes of the file at p.path.
C5_BytesAreFileBytes ==
    \A s \in Stores :
       store[s].st = "live" /\ Quiet(s) /\ Solo(s) => file = Regular(store[s].data)

\* p.data is what json.Marshal gives for the value p.db points to.
Canonical(s) == store[s].data = Marshal(DB, Deep(store[s].db))
\* The step from this state to the next assigns new bytes to p.data of s.
Commits(s) ==
    /\ store[s].st # "none" /\ store'[s].st # "none"
    /\ store'[s].data # store[s].data

\* C6: original statement.  p.data of every JSONFileDB handed to a caller is
\* json.Marshal of the value p.db points to, also after Load of a file whose
\* bytes are not what json.Marshal writes.
C6_BytesAreEncodedValue ==
    \A s \in Stores : store[s].st = "live" => Canonical(s)

\* C6, amended: a Write that assigns p.data leaves p.data equal to json.Marshal
\* of the value p.db points to, and once a handed-out JSONFileDB is in that
\* condition no step takes it out of it; Load keeps the bytes of the file as
\* they are, so until such a Write a loaded JSONFileDB need not be in it.
C6_EncodedOnceCommitted ==
    [][\A s \in Stores :
          /\ store'[s].st = "live"
          /\ Commits(s) \/ (store[s].st = "live" /\ Canonical(s))
          => Canonical(s)']_vars

\* A JSONFileDB loaded from bytes json.Marshal does not write has committed a
\* Write, and its bytes are now json.Marshal of its value.
C6_Witness ==
    /\ AfterWrite(1) /\ store[1].by = "Load"
    /\ last[1].ret = NoErr /\ last[1].ops # <<>>
    /\ last[1].pre.data # Marshal(DB, last[1].pre.dbv)
    /\ store[1].data # last[1].pre.data
    /\ Canonical(1)

\* A Write whose fn did nothing and returned nil has returned.
AfterNoop(s) == AfterWrite(s) /\ last[s].fn.op = "noop" /\ ~last[s].fn.fail
\* Nothing happened: nil is returned, no file system call was made, and the
\* file and the memory are as before.
Untouched(s) ==
    /\ last[s].ret = NoErr
    /\ last[s].ops = <<>>
    /\ file = last[s].pre.file
    /\ MemoryAsBefore(s)

\* C7: original statement.  In every state, a Write whose fn changes nothing
\* returns nil and makes no file system call.
C7_NoopWriteDoesNothing ==
    \A s \in Stores : AfterNoop(s) => Untouched(s)

\* b is what json.Marshal writes for the value b decodes to.
Reencodes(b) ==
    LET r == Unmarshal(DB, b) IN r.ok /\ Marshal(DB, r.v) = b

\* C7, amended: a Write whose fn changes nothing returns nil and makes no file
\* system call when p.data is what json.Marshal writes for the value it
\* decodes to (so after any Write that assigned p.data); on a JSONFileDB
\* loaded from other bytes such a Write writes the file again.
C7_NoopWriteOnEncodedBytes ==
    \A s \in Stores :
       AfterNoop(s) /\ Reencodes(last[s].pre.data) => Untouched(s)

\* A Write whose fn changed nothing has returned on a JSONFileDB that holds
\* something other than the zero value, and the file is as it was.
C7_Witness ==
    /\ AfterNoop(1) /\ Reencodes(last[1].pre.data)
    /\ last[1].pre.dbv # Zero(DB)
    /\ file = Regular(last[1].pre.data)

\* C8: original statement.  When New returns a JSONFileDB, the file at p.path
\* holds json.Marshal of the zero value of DB.
C8_NewWritesTheFile ==
    \A t \in Procs :
       call[t].pc = "ret" /\ call[t].op = "New" /\ call[t].ret = NoErr =>
          file = Regular(Marshal(DB, Zero(DB)))

\* The value a fn that assigns the whole of *db leaves there.
Target(fn) ==
    LET z == Fresh(DB, Zero(DB), NoHeap, NoHeap)
        a == Apply(DB, fn, z.heap[z.db], z.arrs, {})
    IN  DeepIn(DB, a.v, a.arrs)
\* json.Unmarshal(json.Marshal(v)) gives v.
RoundTrips(v) ==
    MarshalOk(DB, v) /\ Unmarshal(DB, Marshal(DB, v)) = [ok |-> TRUE, v |-> v]

\* C9: original statement.  After New, and a Write that returned nil whose fn
\* set *db to a value v that survives a round trip through JSON, Load of the
\* same path returns a JSONFileDB whose value is v, and the value of the first
\* JSONFileDB is v too.
C9_RoundTrip ==
    \A t \in Procs :
       /\ call[t].pc = "ret" /\ call[t].op = "Load" /\ call[t].s = 2
       /\ store[1].st = "live" /\ store[1].by = "New"
       /\ last[1].op = "Write" /\ last[1].ret = NoErr
       /\ last[1].fn.op \in {"set", "clear"}
       /\ RoundTrips(Target(last[1].fn))
       => /\ call[t].ret = NoErr
          /\ Deep(store[2].db) = Target(last[1].fn)
          /\ Deep(store[1].db) = Target(last[1].fn)

\* C10: the value p.db points to is never the instance a fn was called with
\* and shares no backing array with it or with a slice the caller built; so
\* after a Write that assigned p.db, the value is the decoding of the bytes
\* written, whatever the caller has done to its own data since, and that is
\* what Read shows.
C10_NoAlias ==
    \A s \in Stores :
       store[s].st = "live" =>
          /\ store[s].db \notin handed
          /\ DB = "Vals" => heap[store[s].db].Vals \notin CallerArrays
          /\ AfterWrite(s) /\ last[s].ret = NoErr /\ last[s].ops # <<>> =>
                /\ Deep(store[s].db) = Unmarshal(DB, last[s].data).v
                /\ \A t \in Procs :
                      Visited(t, s) => call[t].obs = Unmarshal(DB, last[s].data).v

\* Write stored the caller's slice, the caller has since changed an element of
\* it, and Read shows the slice as it was stored.
C10_Witness ==
    /\ DB = "Vals" /\ AfterWrite(1) /\ last[1].ret = NoErr
    /\ last[1].fn.op = "set" /\ last[1].fn.n = MaxLen
    /\ \E a \in owned \cap DOMAIN arrs : arrs[a] # Iota(MaxLen)
    /\ Visited(1, 1) /\ call[1].obs.elems = Iota(MaxLen)

\* errors.Is(err, os.ErrNotExist): some error of the chain is ENOENT.
ErrNotExist(err) == \E i \in 1..Len(err) : err[i] = "ENOENT"

C13_NewOnTakenPath ==
    \A t \in Procs :
       LET s == call[t].s IN
       /\ call[t].pc = "ret" /\ call[t].op = "New"
       /\ \/ last[s].pre.file.k = "dir"
          \/ last[s].pre.file.k = "file" /\ Unmarshal(DB, last[s].pre.file.b).ok
       => /\ call[t].ret # NoErr
          /\ store[s] = NoStore
          /\ file = last[s].pre.file

\* C14: original statement.  When New or Write returns, the temp file it
\* created is no longer in the directory.
C14_NoTempAfterReturn ==
    [][\A t \in Procs :
          call[t].op \in {"New", "Write"} /\ call[t].pc # "ret" /\ call'[t].pc = "ret"
          => call[t].f \notin DOMAIN temps']_vars

\* C19: original statement.  When no New or Write of a JSONFileDB is in
\* progress, the value p.db points to is what json.Unmarshal gives for p.data.
C19_ValueIsDecodedBytes ==
    \A s \in Stores :
       store[s].st = "live" /\ Quiet(s) =>
          Unmarshal(DB, store[s].data) = [ok |-> TRUE, v |-> Deep(store[s].db)]

\* C20: original statement.  When the fn of a Read of the only JSONFileDB of a
\* path sees a value, the file at the path decodes to that value.
C20_FileHoldsWhatReadSees ==
    \A s \in Stores : \A t \in Procs :
       Visited(t, s) /\ Solo(s) =>
          /\ file.k = "file"
          /\ Unmarshal(DB, file.b) = [ok |-> TRUE, v |-> call[t].obs]

\* Where a call of New or Write is between p.mu.Lock() and the deferred Unlock.
WritePcs == {"unmarshal", "fn", "marshal", "createtemp", "fwrite", "fclose",
             "rename", "remat"}
Writing(s) == {t \in Procs : call[t].s = s /\ call[t].pc \in WritePcs}
\* Where a call of Read is between p.mu.RLock() and the deferred RUnlock.
Reading(s) == {t \in Procs : call[t].s = s /\ call[t].pc \in {"visit", "runlock"}}

\* C11: at most one Write is between Lock and Unlock, no Read is between RLock
\* and RUnlock while one is, and p.data, p.db and the value are, for as long as
\* a Read is in there, what they were when it got the lock and what its fn saw.
C11_ReadersAndWriterExclude ==
    \A s \in Stores :
       /\ Cardinality(Writing(s)) <= 1
       /\ Writing(s) # {} => Reading(s) = {}
       /\ \A t \in Reading(s) :
             /\ store[s].data = call[t].pre.data
             /\ store[s].db = call[t].pre.db
             /\ Deep(store[s].db) = call[t].pre.dbv
             /\ call[t].pc = "runlock" => call[t].obs = call[t].pre.dbv

\* Two Reads are inside at once, after a Write has changed the value.
C11_Witness ==
    /\ \E t \in Procs : \E u \in Procs \ {t} :
          call[t].pc = "runlock" /\ call[u].pc = "runlock"
    /\ last[1].op = "Write" /\ last[1].ops # <<>> /\ last[1].ret = NoErr

\* The value fn leaves when it is given v.
After(fn, v) ==
    LET z == Fresh(DB, v, NoHeap, NoHeap)
        a == Apply(DB, fn, z.heap[z.db], z.arrs, {})
    IN  DeepIn(DB, a.v, a.arrs)

\* C15: Writes take effect one at a time, in the order they get the lock: fn is
\* given the decoding of the bytes committed last, p.data and p.db are replaced
\* only by the Write that holds the lock, and what it commits (and what the
\* file then holds) is fn applied to the value committed before it; so no
\* committed update is lost.
C15_WritesSerialized ==
    [][/\ \A t \in Procs :
            LET c == call[t]
                s == c.s
            IN  /\ c.pc = "fn" /\ call'[t].pc # "fn" =>
                      /\ mu[s].w = t
                      /\ store[s].data = c.pre.data
                      /\ Deep(c.db) = Unmarshal(DB, store[s].data).v
                /\ c.pc = "remat" /\ store'[s] # store[s] =>
                      /\ store[s].data = c.pre.data
                      /\ store'[s].data = Marshal(DB, After(c.fn, Unmarshal(DB, c.pre.data).v))
                      /\ Deep(store[s].db)' = After(c.fn, Unmarshal(DB, c.pre.data).v)
                      /\ file = Regular(store'[s].data)
       /\ \A s \in Stores :
            store[s].st = "live" /\ store'[s] # store[s] =>
               \E t \in Procs : mu[s].w = t /\ call[t].s = s /\ call[t].pc = "remat"]_vars

\* Two increments are under way at once: one has renamed its document onto the
\* file and is about to commit, the other waits for the lock.
C15_Witness ==
    \E t \in Procs : \E u \in Procs \ {t} :
       /\ call[t].pc = "remat" /\ call[t].fn.op = "inc"
       /\ call[u].pc = "lock" /\ call[u].op = "Write" /\ call[u].fn.op = "inc"

\* The lock of s is held only by calls that are between taking and releasing it.
HeldInside(s) ==
    /\ mu[s].w # 0 => mu[s].w \in Writing(s)
    /\ mu[s].r = Reading(s)
    /\ mu[s].pend # 0 => call[mu[s].pend].pc = "lockwait" /\ call[mu[s].pend].s = s

\* C16: every call of Read and Write returns, whichever way it leaves (nil, the
\* error of fn, an I/O error), and holds the lock no longer once it has; a
\* Write waiting for the lock is not kept out by Reads that overlap for ever,
\* nor a Read by Writes that follow one another for ever.
C16_CallsReturn ==
    /\ [](\A s \in Stores : HeldInside(s))
    /\ \A t \in Goroutines : (~Free(t)) ~> (call[t].pc = "ret" /\ \A s \in Stores : mu[s].w # t /\ t \notin mu[s].r)

\* A Write waits for a Read that is inside to leave, and another Read waits
\* behind it.
C16_Witness ==
    \E t \in Procs, u \in Procs, v \in Procs :
       /\ call[t].pc = "lockwait"
       /\ call[u].pc = "runlock"
       /\ call[v].pc = "rlock" /\ v # u

\* Some call is under way and no call that is under way can take a step.
Deadlock ==
    /\ \E t \in Procs : ~Free(t)
    /\ \A t \in Procs : ~Free(t) => ~ENABLED Inside(t)
\* A call made by a fn from inside Write is under way on s.
Reentered(s) == \E t \in Procs : call[t].nested /\ call[t].s = s

\* C17: a call of Read or Write made by the fn of a Write on the same
\* JSONFileDB never gets the lock, which the Write that runs fn holds, so that
\* Write never returns; from then on no call on that JSONFileDB gets the lock or
\* returns; and a state in which every call under way is blocked is reached
\* only with such a call in it.
C17_ReentrancyDeadlocks ==
    /\ [](Deadlock => \E s \in Stores : Reentered(s))
    /\ [][\A t \in Procs :
            LET s == call[t].s
            IN  /\ call[t].nested =>
                      /\ mu[s].w = t /\ mu'[s].w = t
                      /\ call'[t] = call[t]
                /\ s \in Stores /\ Reentered(s) =>
                      /\ call[t].pc \in {"lock", "rlock"} => call'[t] = call[t]
                      /\ call[t].pc # "ret" => call'[t].pc # "ret"]_vars

\* The fn of a Write has called Read, which waits for the lock its own Write
\* holds; a Write and a Read of two other goroutines wait as well: nothing can
\* move.
C17_Witness ==
    /\ Deadlock
    /\ \E t \in Procs, u \in Procs, v \in Procs :
          /\ call[t].nested /\ call[t].op = "Read" /\ mu[1].w = t
          /\ call[u].pc = "lock" /\ ~call[u].nested
          /\ call[v].pc = "rlock" /\ ~call[v].nested

\* The last Write of each of the two JSONFileDBs returned nil after it had
\* renamed its document onto the file, and no Write is under way.
BothCommitted ==
    \A s \in Stores : AfterWrite(s) /\ last[s].ret = NoErr /\ last[s].ops # <<>>
\* Nothing of its own went wrong in the last Write of s: fn returned nil, its
\* result can be encoded and decoded, and no file system call failed.
NothingFailed(s) ==
    LET v == After(last[s].fn, Unmarshal(DB, last[s].pre.data).v)
    IN  ~last[s].fn.fail /\ Failed(s) = {} /\ RoundTrips(v)

\* C18: original statement.  When two JSONFileDBs of one path have each
\* committed a Write, the file holds the document of one of them and the p.data
\* of the other differs from the file.
C18_LoserDiffersFromFile ==
    BothCommitted =>
       /\ \E w \in Stores : file = Regular(store[w].data)
       /\ \E s \in Stores : file # Regular(store[s].data)

\* C18, amended: every rename puts the whole document of its Write at the
\* path, whatever the file held, so when two JSONFileDBs of one path have each
\* committed a Write the file holds the document of one of them (the one that
\* renamed last); a Write in which nothing of its own fails returns nil
\* although the file is no longer what its JSONFileDB last saw; and the other
\* JSONFileDB, whose p.data differs from the file when the two documents
\* differ, goes on as before: Read shows its own value and a Write that
\* changes nothing returns nil without a file system call.
C18_LastRenameWins ==
    /\ [](BothCommitted => \E w \in Stores : file = Regular(store[w].data))
    /\ [](\A s \in Stores : AfterWrite(s) /\ NothingFailed(s) => last[s].ret = NoErr)
    /\ [](\A s \in Stores :
            /\ AfterNoop(s) /\ Reencodes(last[s].pre.data) =>
                  last[s].ret = NoErr /\ last[s].ops = <<>> /\ MemoryAsBefore(s)
            /\ \A t \in Procs :
                  Visited(t, s) => call[t].obs = Unmarshal(DB, store[s].data).v)
    /\ [][\A t \in Procs :
            /\ call[t].pc = "rename" /\ call'[t].pc = "remat" =>
                  file' = Regular(call[t].data)
            /\ file' # file => \E u \in Procs : call[u].pc = "rename" /\ call'[u].pc = "remat"]_vars

\* Two Writes that both began on the same file have each committed a document
\* of their own; the file holds the second JSONFileDB's, the p.data of the
\* first differs from it, and a Read of the first has shown its own value.
C18_Witness ==
    /\ BothCommitted
    /\ last[1].pre.file = last[2].pre.file
    /\ store[1].data # store[2].data
    /\ file = Regular(store[2].data)
    /\ Visited(1, 1) /\ call[1].obs = Unmarshal(DB, store[1].data).v
====
